---------------------------- MODULE Spec2Model ----------------------------
(***************************************************************************)
(* State-machine model of run.py, the interactive earthquake depth map:    *)
(* module start (fetch_data, quake pre-processing, border processing,      *)
(* static traces) followed by any number of update_graph callbacks.        *)
(*                                                                         *)
(* Units.  Angles are whole degrees and restricted to multiples of 90, for *)
(* which cos and sin are exactly -1, 0 or 1, so latlon_to_xyz is computed  *)
(* exactly in integers (km).  Depths are whole km.  Magnitudes are held in *)
(* hundredths (5.0 is 500, the display floor 0.1 is 10).  The size slider  *)
(* is held in halves (1..10 step 0.5 is 2..20), so a marker size is in     *)
(* units of 1/200.                                                         *)
(***************************************************************************)
EXTENDS Integers, Sequences, FiniteSets, TLC

VARIABLES
    pc,            \* position of the module / server
    net,           \* requests.get calls issued so far, in order
    out,           \* lines printed so far
    ret,           \* value returned by fetch_data()
    quake_json,    \* module global, line 38
    border_json,   \* module global, line 38
    lats, lons, depths, mags, places,   \* module globals, lines 41-55
    b_x, b_y, b_z, \* module globals, lines 76-109
    static,        \* border_trace and sphere_trace, lines 114-140
    exc,           \* the uncaught exception that ended the process, if any
    fig,           \* figure returned by the latest update_graph call
    seen           \* an earlier update_graph call, remembered for comparison

vars == <<pc, net, out, ret, quake_json, border_json, lats, lons, depths,
          mags, places, b_x, b_y, b_z, static, exc, fig, seen>>

data == <<quake_json, border_json, lats, lons, depths, mags, places,
          b_x, b_y, b_z, static>>

----------------------------------------------------------------------------
(* Bounds of the model *)

MaxFeatures == 2         \* features in a quake feed
MaxBorderFeatures == 1   \* features in a borders document

----------------------------------------------------------------------------
(* Program constants *)

EARTH_RADIUS == 6371     \* km
SAFE_MAG_FLOOR == 10     \* 0.1 in hundredths, np.maximum(mags, 0.1)
CMIN == 0
CMAX == 700
SPHERE_GRID == 50

USGS_URL == "USGS_URL"
BORDERS_URL == "BORDERS_URL"

\* dcc.Slider(id='size-slider', min=1, max=10, step=0.5), in halves
SizeSliderValues == 2..20
\* dcc.Slider(id='depth-slider', min=1, max=50, step=1)
DepthSliderValues == 1..50

----------------------------------------------------------------------------
(* JSON values as Python objects, tagged by kind *)

JNull == [k |-> "null"]
JNum(n) == [k |-> "num", n |-> n]
JStr(s) == [k |-> "str", s |-> s]
JList(items) == [k |-> "list", items |-> items]
JObj(fields) == [k |-> "obj", fields |-> fields]

Unbound == [k |-> "unbound"]     \* a name not assigned yet
NoExc == [type |-> "none", line |-> 0]
Raised(type, line) == [type |-> type, line |-> line]

Ok(v) == [exc |-> "none", val |-> v]
Err(type) == [exc |-> type, val |-> JNull]

\* obj[key] with a string key
GetItem(obj, key) ==
    CASE obj.k = "obj" -> IF key \in DOMAIN obj.fields
                             THEN Ok(obj.fields[key])
                             ELSE Err("KeyError")
      [] OTHER -> Err("TypeError")

\* seq[i] with a non-negative integer index (Python, zero-based)
Index(obj, i) ==
    CASE obj.k = "list" -> IF i < Len(obj.items)
                              THEN Ok(obj.items[i + 1])
                              ELSE Err("IndexError")
      [] obj.k = "obj" -> Err("KeyError")
      [] OTHER -> Err("TypeError")

\* obj.get(key): None for a missing key; only dicts have the method
DictGet(obj, key) ==
    CASE obj.k = "obj" -> IF key \in DOMAIN obj.fields
                             THEN Ok(obj.fields[key])
                             ELSE Ok(JNull)
      [] OTHER -> Err("AttributeError")

\* bool(obj)
Truthy(obj) ==
    CASE obj.k = "null" -> FALSE
      [] obj.k = "num" -> obj.n # 0
      [] obj.k = "str" -> obj.s # ""
      [] obj.k = "list" -> obj.items # <<>>
      [] obj.k = "obj" -> DOMAIN obj.fields # {}
      [] OTHER -> TRUE

\* a or b
PyOr(a, b) == IF Truthy(a) THEN a ELSE b

----------------------------------------------------------------------------
(* The quake feed: GeoJSON features the server may send *)

\* {"geometry": {"coordinates": [lon, lat, depth]}, "properties": props}
Geometry(coords) == JObj([coordinates |-> JList(coords)])
Coords3(lon, lat, depth) == <<JNum(lon), JNum(lat), JNum(depth)>>
QuakeFeature(geometry, props) ==
    JObj([geometry |-> geometry, properties |-> JObj(props)])

\* lat 0, lon 0, depth 0, mag -1
FeatureNegMag ==
    QuakeFeature(Geometry(Coords3(0, 0, 0)),
                 [mag |-> JNum(-100), place |-> JStr("Gulf of Guinea")])
\* depth 10, mag 5.0
FeatureMag5 ==
    QuakeFeature(Geometry(Coords3(90, 0, 10)),
                 [mag |-> JNum(500), place |-> JStr("Bay of Bengal")])
\* deepest quake of the colour scale, mag null, no place key
FeatureDeepNullMag ==
    QuakeFeature(Geometry(Coords3(180, 0, 700)), [mag |-> JNull])
\* no mag key, place null
FeatureNoMag ==
    QuakeFeature(Geometry(Coords3(0, 90, 35)), [place |-> JNull])

WellFormedFeatures ==
    {FeatureNegMag, FeatureMag5, FeatureDeepNullMag, FeatureNoMag}

FeatureNoGeometry == JObj([properties |-> JObj([mag |-> JNum(120)])])
FeatureNullGeometry ==
    JObj([geometry |-> JNull, properties |-> JObj([mag |-> JNum(120)])])
FeatureShortCoords ==
    JObj([geometry |-> Geometry(<<JNum(90), JNum(0)>>),
          properties |-> JObj([mag |-> JNum(120)])])
FeatureNoProperties == JObj([geometry |-> Geometry(Coords3(90, 0, 10))])
FeatureNullProperties ==
    JObj([geometry |-> Geometry(Coords3(90, 0, 10)), properties |-> JNull])

MalformedFeatures ==
    {FeatureNoGeometry, FeatureNullGeometry, FeatureShortCoords,
     FeatureNoProperties, FeatureNullProperties}

SeqsUpTo(S, n) == UNION {[1..m -> S] : m \in 0..n}

FeatureCollection(features) == JObj([features |-> JList(features)])

\* bodies of a 200 response of the quake feed
QuakeBodies ==
    {FeatureCollection(fs) :
        fs \in SeqsUpTo(WellFormedFeatures \cup MalformedFeatures, MaxFeatures)}
    \cup {JObj([type |-> JStr("FeatureCollection")])}

IsWellFormedFeed(doc) ==
    /\ doc.k = "obj"
    /\ "features" \in DOMAIN doc.fields
    /\ doc.fields.features.k = "list"
    /\ \A i \in 1..Len(doc.fields.features.items) :
          doc.fields.features.items[i] \in WellFormedFeatures

----------------------------------------------------------------------------
(* The borders document: Polygon and MultiPolygon features *)

Pt(lon, lat) == JList(<<JNum(lon), JNum(lat)>>)
RingA == JList(<<Pt(0, 0), Pt(90, 0), Pt(0, 90)>>)
RingB == JList(<<Pt(180, 0), Pt(-90, 0)>>)
RingHole == JList(<<Pt(0, -90), Pt(90, 0)>>)
RingEmpty == JList(<<>>)
RingNotPairs == JList(<<JList(<<JNum(0)>>), JList(<<JNum(90)>>)>>)
RingNonNumeric == JList(<<JList(<<JStr("a"), JStr("b")>>)>>)
\* a polygon's ring list where a ring is expected
RingOverNested == JList(<<JList(<<Pt(0, 0), Pt(90, 0)>>)>>)

BorderFeature(type, coordinates) ==
    JObj([geometry |-> JObj([type |-> JStr(type), coordinates |-> coordinates])])

PolygonOneRing == BorderFeature("Polygon", JList(<<RingA>>))
PolygonWithHole == BorderFeature("Polygon", JList(<<RingA, RingHole>>))
MultiPolygonWithHole ==
    BorderFeature("MultiPolygon",
                  JList(<<JList(<<RingA, RingHole>>), JList(<<RingB>>)>>))
MultiPolygonNoHole ==
    BorderFeature("MultiPolygon", JList(<<JList(<<RingB>>), JList(<<RingA>>)>>))

WellFormedBorderFeatures ==
    {PolygonOneRing, PolygonWithHole, MultiPolygonWithHole, MultiPolygonNoHole}

PolygonEmptyRing == BorderFeature("Polygon", JList(<<RingA, RingEmpty, RingB>>))
PolygonNotPairs == BorderFeature("Polygon", JList(<<RingNotPairs, RingB>>))
PolygonNonNumeric == BorderFeature("Polygon", JList(<<RingA, RingNonNumeric>>))
PolygonOverNested == BorderFeature("Polygon", JList(<<RingOverNested, RingB>>))
PolygonNullCoords == BorderFeature("Polygon", JNull)
MultiPolygonNoPolygons == BorderFeature("MultiPolygon", JList(<<>>))
MultiPolygonEmptyPolygon ==
    BorderFeature("MultiPolygon", JList(<<JList(<<RingA>>), JList(<<>>)>>))

MalformedBorderFeatures ==
    {PolygonEmptyRing, PolygonNotPairs, PolygonNonNumeric, PolygonOverNested,
     PolygonNullCoords, MultiPolygonNoPolygons, MultiPolygonEmptyPolygon}

\* bodies of a 200 response of the borders file
BorderBodies ==
    {FeatureCollection(fs) :
        fs \in SeqsUpTo(WellFormedBorderFeatures \cup MalformedBorderFeatures,
                        MaxBorderFeatures)}

\* JSON bodies a server sends with an error status
ErrorBodies == {JObj([message |-> JStr("Not Found")]), JObj(<<>>)}

----------------------------------------------------------------------------
(* Outcomes of requests.get(url, timeout=10) *)

\* the call itself raises
GetRaises == {"ConnectionError", "Timeout"}

Response(status, parses, body) ==
    [raises |-> "none", status |-> status, parses |-> parses, body |-> body]
NoResponse(e) == [raises |-> e, status |-> 0, parses |-> FALSE, body |-> JNull]

QuakeOutcomes ==
    {NoResponse(e) : e \in GetRaises}
    \cup {Response(200, TRUE, b) : b \in QuakeBodies}
    \cup {Response(200, FALSE, JNull)}
    \cup {Response(503, TRUE, b) : b \in ErrorBodies}
    \cup {Response(404, FALSE, JNull)}

BorderOutcomes ==
    {NoResponse(e) : e \in GetRaises}
    \cup {Response(200, TRUE, b) : b \in BorderBodies}
    \cup {Response(200, FALSE, JNull)}
    \cup {Response(404, TRUE, b) : b \in ErrorBodies}
    \cup {Response(404, FALSE, JNull)}

\* the two-feature feed: (depth 10, mag 5.0) and (lat 0, lon 0, depth 0, mag -1)
TwoFeatureFeed == FeatureCollection(<<FeatureMag5, FeatureNegMag>>)

BasicQuakeOutcomes == {Response(200, TRUE, TwoFeatureFeed)}
BasicBorderOutcomes ==
    {NoResponse("Timeout"),
     Response(200, TRUE, FeatureCollection(<<PolygonWithHole>>))}

\* what the two servers answer in one run: every answer of one server is
\* paired with the basic answers of the other
ServerAnswers ==
    (QuakeOutcomes \X BasicBorderOutcomes)
    \cup (BasicQuakeOutcomes \X BorderOutcomes)

\* Response.raise_for_status(): HTTPError for 4xx and 5xx
RaiseForStatus(r) == IF r.status >= 400 /\ r.status < 600 THEN "HTTPError" ELSE "none"

\* Response.json(): the parsed body, or JSONDecodeError
ResponseJson(r) == IF r.parses THEN Ok(r.body) ELSE Err("JSONDecodeError")

----------------------------------------------------------------------------
(* Math helpers *)

\* np.cos(np.radians(a)) and np.sin(np.radians(a)) at multiples of 90 degrees
CosDeg(a) == CASE a % 360 = 0 -> 1 [] a % 360 = 180 -> -1 [] OTHER -> 0
SinDeg(a) == CASE a % 360 = 90 -> 1 [] a % 360 = 270 -> -1 [] OTHER -> 0

\* latlon_to_xyz on one element
latlon_to_xyz(lat, lon, radius) ==
    [x |-> radius * CosDeg(lat) * CosDeg(lon),
     y |-> radius * CosDeg(lat) * SinDeg(lon),
     z |-> radius * SinDeg(lat)]

\* the unit vector of (lat, lon)
Direction(lat, lon) == latlon_to_xyz(lat, lon, 1)

----------------------------------------------------------------------------
(* fetch_data, lines 18-36 *)

\* outcome of the try block of the quake request, lines 20-26
QuakeTry(r) ==
    IF r.raises # "none" THEN Err(r.raises)
    ELSE IF RaiseForStatus(r) # "none" THEN Err(RaiseForStatus(r))
    ELSE ResponseJson(r)

\* outcome of the try block of the borders request, lines 29-34
BorderTry(r) ==
    IF r.raises # "none" THEN Err(r.raises)
    ELSE ResponseJson(r)

Request(url, r) ==
    [url |-> url, raises |-> r.raises, status |-> r.status, parses |-> r.parses]

EmptyList == JList(<<>>)

\* fetch_data with the quake request repeated once after a failure
fetch_data_retry(rq, rb) ==
    LET q == QuakeTry(rq)
        b == BorderTry(rb)
    IN  IF q.exc # "none"
        THEN [net |-> <<Request(USGS_URL, rq), Request(USGS_URL, rq)>>,
              out |-> <<"Error fetching quakes">>,
              ret |-> <<EmptyList, EmptyList, EmptyList, EmptyList, EmptyList>>]
        ELSE [net |-> <<Request(USGS_URL, rq), Request(BORDERS_URL, rb)>>,
              out |-> IF b.exc # "none" THEN <<"Error fetching borders">> ELSE <<>>,
              ret |-> <<q.val, IF b.exc # "none" THEN JNull ELSE b.val>>]

\* fetch_data() given what the two servers answer: the requests it issues,
\* the lines it prints and the tuple it returns
fetch_data(rq, rb) ==
    LET q == QuakeTry(rq)
        b == BorderTry(rb)
    IN  IF q.exc # "none"
        THEN [net |-> <<Request(USGS_URL, rq)>>,
              out |-> <<"Error fetching quakes">>,
              ret |-> <<EmptyList, EmptyList, EmptyList, EmptyList, EmptyList>>]
        ELSE [net |-> <<Request(USGS_URL, rq), Request(BORDERS_URL, rb)>>,
              out |-> IF b.exc # "none" THEN <<"Error fetching borders">> ELSE <<>>,
              ret |-> <<q.val, IF b.exc # "none" THEN JNull ELSE b.val>>]

----------------------------------------------------------------------------
(* Quake pre-processing, lines 41-55 *)

NoQuakes ==
    [lats |-> <<>>, lons |-> <<>>, depths |-> <<>>, mags |-> <<>>,
     places |-> <<>>, exc |-> NoExc]

Raise(acc, type, line) == [acc EXCEPT !.exc = Raised(type, line)]

\* props.get("mag") or 0
MagOf(props) == PyOr(DictGet(props, "mag").val, JNum(0)).n
\* props.get("place") or "Unknown"
PlaceOf(props) == PyOr(DictGet(props, "place").val, JStr("Unknown")).s

\* the loop body with the coordinate indices of lat and lon exchanged
ExtractFeatureSwapped(acc, feature) ==
    LET geometry == GetItem(feature, "geometry")
        coords == GetItem(geometry.val, "coordinates")
        c1 == Index(coords.val, 0)
        c0 == Index(coords.val, 1)
        c2 == Index(coords.val, 2)
        props == GetItem(feature, "properties")
        a1 == [acc EXCEPT !.lats = Append(@, c1.val.n)]
        a2 == [a1 EXCEPT !.lons = Append(@, c0.val.n)]
        a3 == [a2 EXCEPT !.depths = Append(@, c2.val.n)]
    IN  IF geometry.exc # "none" THEN Raise(acc, geometry.exc, 43)
        ELSE IF coords.exc # "none" THEN Raise(acc, coords.exc, 43)
        ELSE IF c1.exc # "none" THEN Raise(acc, c1.exc, 44)
        ELSE IF c0.exc # "none" THEN Raise(a1, c0.exc, 45)
        ELSE IF c2.exc # "none" THEN Raise(a2, c2.exc, 46)
        ELSE IF props.exc # "none" THEN Raise(a3, props.exc, 47)
        ELSE IF DictGet(props.val, "mag").exc # "none"
             THEN Raise(a3, DictGet(props.val, "mag").exc, 48)
        ELSE [a3 EXCEPT !.mags = Append(@, MagOf(props.val)),
                        !.places = Append(@, PlaceOf(props.val))]

\* one iteration of the loop, lines 43-49; an exception leaves the appends
\* made before it in place
ExtractFeature(acc, feature) ==
    LET geometry == GetItem(feature, "geometry")
        coords == GetItem(geometry.val, "coordinates")
        c1 == Index(coords.val, 1)
        c0 == Index(coords.val, 0)
        c2 == Index(coords.val, 2)
        props == GetItem(feature, "properties")
        a1 == [acc EXCEPT !.lats = Append(@, c1.val.n)]
        a2 == [a1 EXCEPT !.lons = Append(@, c0.val.n)]
        a3 == [a2 EXCEPT !.depths = Append(@, c2.val.n)]
    IN  IF geometry.exc # "none" THEN Raise(acc, geometry.exc, 43)
        ELSE IF coords.exc # "none" THEN Raise(acc, coords.exc, 43)
        ELSE IF c1.exc # "none" THEN Raise(acc, c1.exc, 44)
        ELSE IF c0.exc # "none" THEN Raise(a1, c0.exc, 45)
        ELSE IF c2.exc # "none" THEN Raise(a2, c2.exc, 46)
        ELSE IF props.exc # "none" THEN Raise(a3, props.exc, 47)
        ELSE IF DictGet(props.val, "mag").exc # "none"
             THEN Raise(a3, DictGet(props.val, "mag").exc, 48)
        ELSE [a3 EXCEPT !.mags = Append(@, MagOf(props.val)),
                        !.places = Append(@, PlaceOf(props.val))]

RECURSIVE ExtractLoop(_, _, _)
ExtractLoop(acc, features, i) ==
    IF i > Len(features) \/ acc.exc # NoExc THEN acc
    ELSE ExtractLoop(ExtractFeature(acc, features[i]), features, i + 1)

\* lines 41-55 on the fetched document
ExtractQuakes(doc) ==
    LET got == DictGet(doc, "features")
        features == IF got.val = JNull /\ ~("features" \in DOMAIN doc.fields)
                    THEN EmptyList ELSE got.val
    IN  IF got.exc # "none" THEN Raise(NoQuakes, got.exc, 42)
        ELSE IF features.k # "list" THEN Raise(NoQuakes, "TypeError", 42)
        ELSE ExtractLoop(NoQuakes, features.items, 1)

----------------------------------------------------------------------------
(* Border processing, lines 76-111 *)

\* shape of np.array(v); Ragged when the nesting is inhomogeneous
Ragged == <<-1>>

RECURSIVE NpShape(_)
NpShape(v) ==
    IF v.k # "list" THEN <<>>
    ELSE IF Len(v.items) = 0 THEN <<0>>
    ELSE LET sub == [i \in 1..Len(v.items) |-> NpShape(v.items[i])]
         IN  IF sub[1] # Ragged /\ \A i \in 1..Len(sub) : sub[i] = sub[1]
             THEN <<Len(v.items)>> \o sub[1]
             ELSE Ragged

\* whether np.array(v) has a numeric dtype, so that np.radians accepts it
RECURSIVE NpNumeric(_)
NpNumeric(v) ==
    IF v.k = "list" THEN \A i \in 1..Len(v.items) : NpNumeric(v.items[i])
    ELSE v.k = "num"

\* pts[:, j] of an array of at least two dimensions
Column(v, j) == [i \in 1..Len(v.items) |-> v.items[i].items[j + 1]]

\* one coordinate of latlon_to_xyz, element-wise over equally shaped arrays,
\* followed by tolist()
RECURSIVE XyzList(_, _, _, _)
XyzList(axis, lat, lon, radius) ==
    IF lat.k = "list"
    THEN JList([i \in 1..Len(lat.items) |->
                    XyzList(axis, lat.items[i], lon.items[i], radius)])
    ELSE LET p == latlon_to_xyz(lat.n, lon.n, radius)
         IN  JNum(CASE axis = "x" -> p.x [] axis = "y" -> p.y [] OTHER -> p.z)

None == JNull

NoBorders == [b_x |-> <<>>, b_y |-> <<>>, b_z |-> <<>>, exc |-> NoExc]

\* the try block of one ring, lines 94-111: every exception skips the ring
\* before anything is appended.  For inhomogeneous nesting np.array raises
\* ValueError, or (older NumPy) builds a 1-d object array on which pts[:, 0]
\* raises IndexError; either way the ring is skipped
ProcessRing(acc, poly) ==
    LET shape == NpShape(poly)
        b_lons == JList(Column(poly, 0))
        b_lats == JList(Column(poly, 1))
        bx == XyzList("x", b_lats, b_lons, EARTH_RADIUS).items
        by == XyzList("y", b_lats, b_lons, EARTH_RADIUS).items
        bz == XyzList("z", b_lats, b_lons, EARTH_RADIUS).items
    IN  IF shape = Ragged THEN acc                     \* ValueError, line 96
        ELSE IF Len(shape) < 2 THEN acc                \* IndexError, line 97
        ELSE IF shape[2] < 1 THEN acc                  \* IndexError, line 97
        ELSE IF shape[2] < 2 THEN acc                  \* IndexError, line 98
        ELSE IF ~NpNumeric(poly) THEN acc              \* TypeError, line 101
        ELSE [acc EXCEPT !.b_x = @ \o bx \o <<None>>,
                         !.b_y = @ \o by \o <<None>>,
                         !.b_z = @ \o bz \o <<None>>]

\* the loop over polygons, lines 87-111
RECURSIVE ProcessPolygons(_, _, _, _)
ProcessPolygons(acc, geo_type, polygons, i) ==
    IF i > Len(polygons) \/ acc.exc # NoExc THEN acc
    ELSE LET first == Index(polygons[i], 0)
         IN  IF geo_type = JStr("MultiPolygon")
             THEN IF first.exc # "none"
                  THEN Raise(acc, first.exc, 91)
                  ELSE ProcessPolygons(ProcessRing(acc, first.val),
                                       geo_type, polygons, i + 1)
             ELSE ProcessPolygons(ProcessRing(acc, polygons[i]),
                                  geo_type, polygons, i + 1)

\* one iteration of the loop over features, lines 81-111.  coords is
\* iterated at line 85 (MultiPolygon) or line 87 (Polygon); the inputs hold
\* a list or null there
ProcessBorderFeature(acc, feature) ==
    LET geometry == GetItem(feature, "geometry")
        geo_type == GetItem(geometry.val, "type")
        coords == GetItem(geometry.val, "coordinates")
    IN  IF geometry.exc # "none" THEN Raise(acc, geometry.exc, 81)
        ELSE IF geo_type.exc # "none" THEN Raise(acc, geo_type.exc, 81)
        ELSE IF coords.exc # "none" THEN Raise(acc, coords.exc, 82)
        ELSE IF coords.val.k # "list"
             THEN Raise(acc, "TypeError",
                        IF geo_type.val = JStr("Polygon") THEN 87 ELSE 85)
        ELSE ProcessPolygons(acc, geo_type.val, coords.val.items, 1)

RECURSIVE BorderLoop(_, _, _)
BorderLoop(acc, features, i) ==
    IF i > Len(features) \/ acc.exc # NoExc THEN acc
    ELSE BorderLoop(ProcessBorderFeature(acc, features[i]), features, i + 1)

\* lines 76-111 on the fetched document
ProcessBorders(doc) ==
    LET features == GetItem(doc, "features")
    IN  IF ~Truthy(doc) THEN NoBorders
        ELSE IF features.exc # "none" THEN Raise(NoBorders, features.exc, 80)
        ELSE IF features.val.k # "list" THEN Raise(NoBorders, "TypeError", 80)
        ELSE BorderLoop(NoBorders, features.val.items, 1)

\* border_trace and sphere_trace, lines 114-140
StaticTraces(bx, by, bz) ==
    [border_trace |-> [x |-> bx, y |-> by, z |-> bz, mode |-> "lines"],
     sphere_trace |-> [points |-> SPHERE_GRID * SPHERE_GRID,
                       radius |-> EARTH_RADIUS]]

----------------------------------------------------------------------------
(* update_graph, lines 186-242 *)

Max(a, b) == IF a >= b THEN a ELSE b

\* r_quakes = EARTH_RADIUS - (depths * depth_scale), line 189
QuakeRadius(depth, depth_scale) == EARTH_RADIUS - (depth * depth_scale)

\* the magnitudes used as they are
SafeMagUnclamped(mag) == mag

\* safe_mags = np.maximum(mags, 0.1), line 201
SafeMag(mag) == Max(mag, SAFE_MAG_FLOOR)

\* marker size, line 208
MarkerSize(mag, size_scale) == SafeMag(mag) * size_scale

\* one hover label, line 194: place, Mag, Depth, Vis Depth
HoverText(p, m, d, depth_scale) ==
    [place |-> p, mag |-> m, depth |-> d, vis_depth |-> d * depth_scale]

\* the quake trace, lines 189-219
QuakeTrace(size_scale, depth_scale) ==
    LET n == Len(lats)
        pos == [i \in 1..n |->
                   latlon_to_xyz(lats[i], lons[i],
                                 QuakeRadius(depths[i], depth_scale))]
    IN  [x |-> [i \in 1..n |-> pos[i].x],
         y |-> [i \in 1..n |-> pos[i].y],
         z |-> [i \in 1..n |-> pos[i].z],
         size |-> [i \in 1..Len(mags) |-> MarkerSize(mags[i], size_scale)],
         color |-> depths,
         cmin |-> CMIN, cmax |-> CMAX,
         text |-> [i \in 1..Len(places) |->
                      HoverText(places[i], mags[i], depths[i], depth_scale)]]

\* lines 222-242
Figure(size_scale, depth_scale) ==
    [sphere |-> static.sphere_trace,
     border |-> static.border_trace,
     quake |-> QuakeTrace(size_scale, depth_scale)]

\* update_graph with the exaggeration applied to the global in place
\* (depths *= depth_scale)
update_graph_inplace(size_scale, depth_scale) ==
    [figure |-> Figure(size_scale, depth_scale),
     lats |-> lats, lons |-> lons,
     depths |-> [i \in 1..Len(depths) |-> depths[i] * depth_scale],
     mags |-> mags,
     places |-> places, b_x |-> b_x, b_y |-> b_y, b_z |-> b_z,
     static |-> static,
     net |-> <<>>]

\* update_graph(size_scale, depth_scale): the figure it returns and the
\* module globals as it leaves them; it reads them and assigns none
update_graph(size_scale, depth_scale) ==
    [figure |-> Figure(size_scale, depth_scale),
     lats |-> lats, lons |-> lons, depths |-> depths, mags |-> mags,
     places |-> places, b_x |-> b_x, b_y |-> b_y, b_z |-> b_z,
     static |-> static,
     net |-> <<>>]

----------------------------------------------------------------------------
(* The state machine *)

NoCall == [called |-> FALSE]
Call(size_scale, depth_scale, figure) ==
    [called |-> TRUE, size_scale |-> size_scale, depth_scale |-> depth_scale,
     figure |-> figure]

\* a past call kept for comparison; between tells whether a call with
\* other slider values has been made since
Remember(call) ==
    [called |-> TRUE, size_scale |-> call.size_scale,
     depth_scale |-> call.depth_scale, figure |-> call.figure,
     between |-> FALSE]
NoteCall(kept, size_scale, depth_scale) ==
    IF kept.called
       /\ (kept.size_scale # size_scale \/ kept.depth_scale # depth_scale)
    THEN [kept EXCEPT !.between = TRUE]
    ELSE kept

\* slider positions the callbacks are driven with: both ends and the default
SizeScaleInputs == {2, 6, 20}
DepthScaleInputs == {1, 10, 50}

Init ==
    /\ pc = "start"
    /\ net = <<>>
    /\ out = <<>>
    /\ ret = Unbound
    /\ quake_json = Unbound
    /\ border_json = Unbound
    /\ lats = Unbound
    /\ lons = Unbound
    /\ depths = Unbound
    /\ mags = Unbound
    /\ places = Unbound
    /\ b_x = Unbound
    /\ b_y = Unbound
    /\ b_z = Unbound
    /\ static = Unbound
    /\ exc = NoExc
    /\ fig = NoCall
    /\ seen = NoCall

\* lines 11-38: the call fetch_data() of line 38 runs and returns
FetchData ==
    /\ pc = "start"
    /\ \E answers \in ServerAnswers :
          LET r == fetch_data(answers[1], answers[2])
          IN  /\ net' = net \o r.net
              /\ out' = <<"Fetching Earthquake Data...">> \o r.out
              /\ ret' = r.ret
    /\ pc' = "unpack"
    /\ UNCHANGED <<quake_json, border_json, lats, lons, depths, mags, places,
                   b_x, b_y, b_z, static, exc, fig, seen>>

\* line 38: quake_json, border_json = <the returned tuple>
Unpack ==
    /\ pc = "unpack"
    /\ IF Len(ret) = 2
       THEN /\ quake_json' = ret[1]
            /\ border_json' = ret[2]
            /\ pc' = "extract"
            /\ exc' = exc
       ELSE /\ exc' = Raised("ValueError", 38)
            /\ pc' = "aborted"
            /\ UNCHANGED <<quake_json, border_json>>
    /\ UNCHANGED <<net, out, ret, lats, lons, depths, mags, places,
                   b_x, b_y, b_z, static, fig, seen>>

\* lines 41-55
Extract ==
    /\ pc = "extract"
    /\ LET r == ExtractQuakes(quake_json)
       IN  /\ lats' = r.lats
           /\ lons' = r.lons
           /\ depths' = r.depths
           /\ mags' = r.mags
           /\ places' = r.places
           /\ exc' = r.exc
           /\ pc' = IF r.exc = NoExc THEN "borders" ELSE "aborted"
    /\ UNCHANGED <<net, out, ret, quake_json, border_json, b_x, b_y, b_z,
                   static, fig, seen>>

\* lines 76-175: border pass, static traces, layout; then the server runs
Borders ==
    /\ pc = "borders"
    /\ LET r == ProcessBorders(border_json)
       IN  /\ b_x' = r.b_x
           /\ b_y' = r.b_y
           /\ b_z' = r.b_z
           /\ exc' = r.exc
           /\ out' = IF Truthy(border_json)
                     THEN Append(out, "Processing Country Borders...")
                     ELSE out
           /\ IF r.exc = NoExc
              THEN /\ static' = StaticTraces(r.b_x, r.b_y, r.b_z)
                   /\ pc' = "serving"
              ELSE /\ static' = static
                   /\ pc' = "aborted"
    /\ UNCHANGED <<net, ret, quake_json, border_json, lats, lons, depths,
                   mags, places, fig, seen>>

\* the callback of lines 181-242, run on a slider change
UpdateGraph ==
    /\ pc = "serving"
    /\ \E size_scale \in SizeScaleInputs, depth_scale \in DepthScaleInputs :
          LET r == update_graph(size_scale, depth_scale)
          IN  /\ fig' = Call(size_scale, depth_scale, r.figure)
              /\ lats' = r.lats
              /\ lons' = r.lons
              /\ depths' = r.depths
              /\ mags' = r.mags
              /\ places' = r.places
              /\ b_x' = r.b_x
              /\ b_y' = r.b_y
              /\ b_z' = r.b_z
              /\ static' = r.static
              /\ net' = net \o r.net
              /\ seen' \in {NoteCall(c, size_scale, depth_scale) :
                               c \in IF seen.called \/ ~fig.called
                                     THEN {seen}
                                     ELSE {seen, Remember(fig)}}
    /\ UNCHANGED <<pc, out, ret, quake_json, border_json, exc>>

Next == FetchData \/ Unpack \/ Extract \/ Borders \/ UpdateGraph

Spec == Init /\ [][Next]_vars

----------------------------------------------------------------------------
(* Vocabulary of the properties *)

\* a request that did not deliver a parsed 2xx document
Failed(req) == req.raises # "none" \/ req.status < 200 \/ req.status > 299 \/ ~req.parses

QuakeRequestFailed == Len(net) >= 1 /\ Failed(net[1])
QuakeRequestSucceeded == Len(net) >= 1 /\ ~Failed(net[1])
BorderRequestFailed == Len(net) >= 2 /\ Failed(net[2])
BorderRequestSucceeded == Len(net) >= 2 /\ ~Failed(net[2])

Printed(line) == \E i \in 1..Len(out) : out[i] = line

\* the quake pre-processing has run to its end or to an exception
Extracted == pc \in {"borders", "serving"} \/ (pc = "aborted" /\ exc.line >= 41)
\* the border pass has run to its end
BordersDone == pc = "serving"

AbortedInExtraction == pc = "aborted" /\ exc.line \in 41..55
AbortedInBorderPass == pc = "aborted" /\ exc.line \in 76..111

\* the features of a feed document, [] without the key
FeaturesOf(doc) ==
    IF doc.k = "obj" /\ "features" \in DOMAIN doc.fields
    THEN doc.fields.features.items
    ELSE <<>>

RECURSIVE Flatten(_)
Flatten(ss) == IF ss = <<>> THEN <<>> ELSE Head(ss) \o Flatten(Tail(ss))

\* the rings of a border feature in input order, by the GeoJSON layout:
\* a Polygon's coordinates are its rings, a MultiPolygon's coordinates are
\* polygons, each a list of rings
RingsOfFeature(feature) ==
    LET g == feature.fields.geometry.fields
    IN  IF g.type = JStr("Polygon") THEN g.coordinates.items
        ELSE Flatten([i \in 1..Len(g.coordinates.items) |->
                         g.coordinates.items[i].items])

RingsOfDocument(doc) ==
    Flatten([i \in 1..Len(FeaturesOf(doc)) |-> RingsOfFeature(FeaturesOf(doc)[i])])

\* a ring of [lon, lat] pairs of numbers
IsWellFormedRing(ring) ==
    /\ ring.k = "list"
    /\ Len(ring.items) >= 1
    /\ \A i \in 1..Len(ring.items) :
          /\ ring.items[i].k = "list"
          /\ Len(ring.items[i].items) = 2
          /\ \A j \in 1..2 : ring.items[i].items[j].k = "num"

\* one axis of a well-formed ring projected on the surface, then a separator
RingWithSeparator(axis, ring) ==
    [i \in 1..Len(ring.items) |->
        LET p == latlon_to_xyz(ring.items[i].items[2].n,
                               ring.items[i].items[1].n, EARTH_RADIUS)
        IN  JNum(CASE axis = "x" -> p.x [] axis = "y" -> p.y [] OTHER -> p.z)]
    \o <<None>>

\* the flattened sequence the well-formed rings among rings account for
ExpectedBorder(axis, rings) ==
    Flatten([i \in 1..Len(rings) |->
                IF IsWellFormedRing(rings[i])
                THEN RingWithSeparator(axis, rings[i])
                ELSE <<>>])

NoneIndices(seq) == {i \in 1..Len(seq) : seq[i] = None}

IsWellFormedBorders(doc) ==
    /\ doc.k = "obj"
    /\ "features" \in DOMAIN doc.fields
    /\ \A i \in 1..Len(doc.fields.features.items) :
          doc.fields.features.items[i] \in WellFormedBorderFeatures

\* a collection of Polygon features whose coordinates are lists
IsPolygonsDocument(doc) ==
    /\ doc.k = "obj"
    /\ "features" \in DOMAIN doc.fields
    /\ \A i \in 1..Len(doc.fields.features.items) :
          LET g == doc.fields.features.items[i].fields.geometry.fields
          IN  g.type = JStr("Polygon") /\ g.coordinates.k = "list"

----------------------------------------------------------------------------
(* Properties *)

\* C1: when the GET of the earthquake feed fails, the program does not
\* abort: fetch_data logs the cause, module start completes with zero events
\* in lats, lons, depths, mags and places, and every figure update_graph
\* returns afterwards has zero quake points.
C1_QuakeFailureDegrades ==
    QuakeRequestFailed =>
        /\ pc # "aborted"
        /\ Printed("Error fetching quakes")
        /\ Extracted =>
              /\ lats = <<>> /\ lons = <<>> /\ depths = <<>>
              /\ mags = <<>> /\ places = <<>>
        /\ fig.called => fig.figure.quake.x = <<>>

\* C2: no failure of the borders request is fatal: module start completes,
\* the border trace holds no point, and figures are rendered without borders
\* with the quake data intact.
C2_BorderFailureNonFatal ==
    BorderRequestFailed =>
        /\ ~AbortedInBorderPass
        /\ BordersDone =>
              /\ b_x = <<>> /\ b_y = <<>> /\ b_z = <<>>
              /\ static.border_trace.x = <<>>
              /\ Len(lats) = Len(FeaturesOf(quake_json))
        /\ fig.called =>
              /\ fig.figure.border.x = <<>>
              /\ Len(fig.figure.quake.x) = Len(FeaturesOf(quake_json))

\* C3: extracting the event records of a successfully fetched feed never
\* raises, whatever fields a feature lacks: the five lists stay of one length,
\* at most the number of features.
C3_ExtractionNeverRaises ==
    QuakeRequestSucceeded =>
        /\ ~AbortedInExtraction
        /\ Extracted =>
              /\ Len(lats) = Len(lons) /\ Len(lons) = Len(depths)
              /\ Len(depths) = Len(mags) /\ Len(mags) = Len(places)
              /\ Len(lats) <= Len(FeaturesOf(quake_json))

\* C4: for a collection of Polygon and MultiPolygon features with well-formed
\* rings, b_x, b_y and b_z hold every input ring (interior rings of
\* MultiPolygon polygons included) projected in input order and followed by
\* one None, so the None entries are as many as the input rings and sit at
\* the same indices in the three sequences.
C4_EveryRingFlattened ==
    (BordersDone /\ BorderRequestSucceeded /\ IsWellFormedBorders(border_json)) =>
        LET rings == RingsOfDocument(border_json)
        IN  /\ b_x = ExpectedBorder("x", rings)
            /\ b_y = ExpectedBorder("y", rings)
            /\ b_z = ExpectedBorder("z", rings)
            /\ Cardinality(NoneIndices(b_x)) = Len(rings)
            /\ NoneIndices(b_x) = NoneIndices(b_y)
            /\ NoneIndices(b_y) = NoneIndices(b_z)

\* C7: for every event with depth in 0..700 km and every slider value of
\* depth_scale, update_graph places the quake on the ray of its own
\* (lat, lon) at distance EARTH_RADIUS - depth * depth_scale, a radius from
\* 0 to EARTH_RADIUS.
C7_DepthPlacementInterior ==
    fig.called =>
        \A i \in 1..Len(depths) :
            depths[i] \in 0..700 =>
                LET r == EARTH_RADIUS - depths[i] * fig.depth_scale
                    u == Direction(lats[i], lons[i])
                IN  /\ r >= 0
                    /\ r <= EARTH_RADIUS
                    /\ fig.figure.quake.x[i] = r * u.x
                    /\ fig.figure.quake.y[i] = r * u.y
                    /\ fig.figure.quake.z[i] = r * u.z

\* C10: malformed border rings are skipped one by one: the border pass never
\* aborts, a malformed ring adds no point and no separator to b_x, b_y, b_z,
\* and every well-formed ring before and after it adds its points followed
\* by one separator.
C10_MalformedRingsSkipped ==
    BorderRequestSucceeded =>
        /\ ~AbortedInBorderPass
        /\ (BordersDone /\ IsPolygonsDocument(border_json)) =>
              LET rings == RingsOfDocument(border_json)
              IN  /\ b_x = ExpectedBorder("x", rings)
                  /\ b_y = ExpectedBorder("y", rings)
                  /\ b_z = ExpectedBorder("z", rings)

\* C5: a record whose mag is missing or null is stored with magnitude 0;
\* every marker size of a figure is max(magnitude, 0.1) times size_scale,
\* and for every value of the size slider every marker size is positive,
\* for negative and zero magnitudes too.
C5_MagnitudeClamp ==
    /\ (Extracted /\ IsWellFormedFeed(quake_json)) =>
          \A i \in 1..Len(mags) :
              LET props == FeaturesOf(quake_json)[i].fields.properties.fields
              IN  (~("mag" \in DOMAIN props) \/ props.mag = JNull) => mags[i] = 0
    /\ fig.called =>
          \A i \in 1..Len(mags) :
              /\ fig.figure.quake.size[i]
                    = (IF mags[i] > 10 THEN mags[i] ELSE 10) * fig.size_scale
              /\ fig.figure.quake.size[i] > 0
    /\ BordersDone =>
          \A s \in SizeSliderValues : \A i \in 1..Len(mags) :
              /\ update_graph(s, 1).figure.quake.size[i] > 0
              /\ Len(update_graph(s, 1).figure.quake.size) = Len(mags)

\* a figure holding a marker of a missing, a null or a negative magnitude
C5_Witness ==
    /\ fig.called
    /\ \E i \in 1..Len(mags) :
          /\ mags[i] <= 0
          /\ fig.figure.quake.size[i] = 10 * fig.size_scale
    /\ \E i \in 1..Len(mags) :
          /\ ~("mag" \in DOMAIN FeaturesOf(quake_json)[i].fields.properties.fields)
          /\ mags[i] = 0

\* C6: update_graph is a pure function of the cached data and the two slider
\* values: no invocation changes lats, lons, depths, mags, places, the border
\* sequences or the static traces, none issues a network request, and two
\* invocations with the same slider values return the same figure whatever
\* was invoked in between.
C6_UpdateGraphPure ==
    /\ [][pc = "serving" => (data' = data /\ net' = net)]_vars
    /\ [](  (/\ seen.called
             /\ fig.called
             /\ seen.size_scale = fig.size_scale
             /\ seen.depth_scale = fig.depth_scale)
          => seen.figure = fig.figure)

\* two invocations with equal slider values around one with other values,
\* on non-empty quake and border data
C6_Witness ==
    /\ seen.called
    /\ fig.called
    /\ seen.between
    /\ seen.size_scale = fig.size_scale
    /\ seen.depth_scale = fig.depth_scale
    /\ Len(lats) = 2
    /\ Len(b_x) > 0

\* C8: for a well-formed feed of N features the pipeline raises nothing and
\* update_graph yields N positions, N marker sizes, N colour values and N
\* hover texts, the i-th of each derived from the i-th feature; for the
\* two-feature feed (mag 5.0; mag -1) it yields two positions, the second
\* sized from the display floor 0.1.
C8_CountAndOrder ==
    IsWellFormedFeed(quake_json) =>
        LET features == FeaturesOf(quake_json)
            N == Len(features)
            lon(i) == features[i].fields.geometry.fields.coordinates.items[1].n
            lat(i) == features[i].fields.geometry.fields.coordinates.items[2].n
            depth(i) == features[i].fields.geometry.fields.coordinates.items[3].n
            props(i) == features[i].fields.properties.fields
            mag(i) == IF "mag" \in DOMAIN props(i) /\ props(i).mag.k = "num"
                      THEN props(i).mag.n ELSE 0
            place(i) == IF "place" \in DOMAIN props(i) /\ props(i).place.k = "str"
                        THEN props(i).place.s ELSE "Unknown"
        IN  /\ ~AbortedInExtraction
            /\ Extracted =>
                  /\ Len(lats) = N /\ Len(lons) = N /\ Len(depths) = N
                  /\ Len(mags) = N /\ Len(places) = N
            /\ fig.called =>
                  LET q == fig.figure.quake
                  IN  /\ Len(q.x) = N /\ Len(q.y) = N /\ Len(q.z) = N
                      /\ Len(q.size) = N /\ Len(q.color) = N /\ Len(q.text) = N
                      /\ \A i \in 1..N :
                            LET p == latlon_to_xyz(lat(i), lon(i),
                                        EARTH_RADIUS - depth(i) * fig.depth_scale)
                            IN  /\ q.x[i] = p.x /\ q.y[i] = p.y /\ q.z[i] = p.z
                                /\ q.size[i]
                                      = (IF mag(i) > 10 THEN mag(i) ELSE 10)
                                        * fig.size_scale
                                /\ q.color[i] = depth(i)
                                /\ q.text[i].place = place(i)
                                /\ q.text[i].mag = mag(i)
                                /\ q.text[i].depth = depth(i)
                      /\ quake_json = TwoFeatureFeed =>
                            /\ N = 2
                            /\ q.size[1] = 500 * fig.size_scale
                            /\ q.size[2] = 10 * fig.size_scale

\* a figure of the two-feature feed
C8_Witness ==
    /\ fig.called
    /\ quake_json = TwoFeatureFeed
    /\ Len(fig.figure.quake.x) = 2
    /\ fig.figure.quake.text[2].mag = -100

\* C9: each feed URL is requested at most once in the life of the process,
\* both requests are made during module start before the first update_graph
\* invocation, the borders request follows a quake request that succeeded,
\* and a failed request is not repeated.
C9_NetworkOneShot ==
    /\ [](/\ Len(net) <= 2
          /\ \A i, j \in 1..Len(net) : net[i].url = net[j].url => i = j
          /\ Len(net) >= 1 => net[1].url = USGS_URL
          /\ Len(net) = 2 => (net[2].url = BORDERS_URL /\ ~Failed(net[1]))
          /\ pc # "start" => Len(net) >= 1)
    /\ [][net' # net => (pc = "start" /\ ~fig.called /\ ~fig'.called)]_vars

\* a served figure after a failed borders request
C9_Witness ==
    /\ fig.called
    /\ seen.called
    /\ Len(net) = 2
    /\ Failed(net[2])

=============================================================================
